---- MODULE Spec2Model ----
(***************************************************************************)
(* Lifecycle controller of the DXWY D350T1013V1 / ST7701 MIPI-DSI panel    *)
(* driver (src/panel-dxwy-d350t1013v1.c).                                  *)
(*                                                                         *)
(* The driver's state is the three collaborators it sequences: the         *)
(* regulator enable count, the reset GPIO level and the DSI command        *)
(* channel.  Every collaborator call a handler makes is one step; the      *)
(* calls are recorded, in order, in log, each with the handler that made   *)
(* it and the source line it comes from.  msleep() calls change no state   *)
(* and are left out.  The host serialises the lifecycle callbacks.         *)
(***************************************************************************)
EXTENDS Integers, Sequences, FiniteSets, TLC

\* Number of Prepare calls the host makes in one run.
MaxCycles == 2

\* Number of modes the connector's probed list holds in one run.
MaxModes == 2

\* Negative errno values a failing collaborator returns (-EIO, -ETIMEDOUT).
ErrCodes == {-5, -110}

\* ARRAY_SIZE(ts8550b_supply_names)
num_supplies == 2

\* ts8550b_mode
ts8550b_mode ==
  [ clock |-> 1000,
    hdisplay |-> 480,
    hsync_start |-> 480 + 18,
    hsync_end |-> 480 + 18 + 16,
    htotal |-> 480 + 18 + 16 + 2,
    vdisplay |-> 800,
    vsync_start |-> 800 + 16,
    vsync_end |-> 800 + 16 + 14,
    vtotal |-> 800 + 16 + 14 + 2,
    width_mm |-> 45,
    height_mm |-> 76,
    type |-> {"DRM_MODE_TYPE_DRIVER", "DRM_MODE_TYPE_PREFERRED"} ]

\* ts8550b_desc; flags is the set of bits or-ed together.
ts8550b_desc ==
  [ mode |-> ts8550b_mode,
    lanes |-> 2,
    flags |-> {"MIPI_DSI_MODE_VIDEO"},
    format |-> "MIPI_DSI_FMT_RGB888",
    num_supplies |-> num_supplies,
    panel_sleep_delay |-> 80 ]

\* st7701_of_match: compatible string -> match data.
st7701_of_match == [c \in {"techstar,ts8550b"} |-> ts8550b_desc]

(***************************************************************************)
(* Collaborator calls, as the entries of a handler's body.                 *)
(***************************************************************************)
\* ST7701_DSI(st7701, seq...): one mipi_dsi_dcs_write_buffer of the bytes
\* { seq }, address byte first; the macro drops the return value.
ST7701_DSI(line, seq) == [call |-> "write", line |-> line, arg |-> seq]

\* mipi_dsi_dcs_read(dsi, cmd, buf, len); every caller drops the result.
\* After a failed read buf is unset; it is only printed, never stored.
mipi_dsi_dcs_read(line, cmd, len) ==
  [call |-> "read", line |-> line, arg |-> <<cmd, len>>]

\* mipi_dsi_dcs_set_display_off(dsi): DCS write of MIPI_DCS_SET_DISPLAY_OFF.
mipi_dsi_dcs_set_display_off(line) ==
  [call |-> "write", line |-> line, arg |-> <<\h28>>]

\* gpiod_set_value(st7701->reset, value)
gpiod_set_value(line, value) ==
  [call |-> "gpio", line |-> line, arg |-> <<value>>]

\* regulator_bulk_enable(desc->num_supplies, st7701->supplies)
regulator_bulk_enable(line, n) ==
  [call |-> "enable", line |-> line, arg |-> <<n>>]

\* regulator_bulk_disable(desc->num_supplies, st7701->supplies)
regulator_bulk_disable(line, n) ==
  [call |-> "disable", line |-> line, arg |-> <<n>>]

(***************************************************************************)
(* st7701_init_sequence: the statements that are not commented out, in     *)
(* source order.                                                           *)
(***************************************************************************)
st7701_init_sequence ==
  << ST7701_DSI(254, <<\h01>>),
     ST7701_DSI(258, <<\h11>>),
     mipi_dsi_dcs_read(263, \h04, 3),
     ST7701_DSI(306, <<\hFF, \h77, \h01, \h00, \h00, \h13>>),
     ST7701_DSI(307, <<\hEF, \h08>>),
     ST7701_DSI(308, <<\hFF, \h77, \h01, \h00, \h00, \h10>>),
     ST7701_DSI(309, <<\hC0, \h63, \h00>>),
     ST7701_DSI(310, <<\hC1, \h10, \h02>>),
     ST7701_DSI(311, <<\hC2, \h31, \h02>>),
     ST7701_DSI(312, <<\hCC, \h10>>),
     ST7701_DSI(313, <<\hB0, \hC0, \h0C, \h92, \h0C, \h10, \h05, \h02, \h0D, \h07, \h21, \h04, \h53, \h11, \h6A, \h32, \h1F>>),
     ST7701_DSI(314, <<\hB1, \hC0, \h87, \hCF, \h0C, \h10, \h06, \h00, \h03, \h08, \h1D, \h06, \h54, \h12, \hE6, \hEC, \h0F>>),
     ST7701_DSI(315, <<\hFF, \h77, \h01, \h00, \h00, \h11>>),
     ST7701_DSI(316, <<\hB0, \h5D>>),
     ST7701_DSI(317, <<\hB1, \h62>>),
     ST7701_DSI(318, <<\hB2, \h82>>),
     ST7701_DSI(319, <<\hB3, \h80>>),
     ST7701_DSI(320, <<\hB5, \h42>>),
     ST7701_DSI(321, <<\hB7, \h85>>),
     ST7701_DSI(322, <<\hB8, \h20>>),
     ST7701_DSI(323, <<\hC0, \h09>>),
     ST7701_DSI(324, <<\hC1, \h78>>),
     ST7701_DSI(325, <<\hC2, \h78>>),
     ST7701_DSI(326, <<\hD0, \h88>>),
     ST7701_DSI(327, <<\hEE, \h42>>),
     ST7701_DSI(330, <<\hE0, \h00, \h00, \h02>>),
     ST7701_DSI(331, <<\hE1, \h04, \hA0, \h06, \hA0, \h05, \hA0, \h07, \hA0, \h00, \h44, \h44>>),
     ST7701_DSI(332, <<\hE2, \h00, \h00, \h33, \h33, \h01, \hA0, \h00, \h00, \h01, \hA0, \h00, \h00>>),
     ST7701_DSI(333, <<\hE3, \h00, \h00, \h33, \h33>>),
     ST7701_DSI(334, <<\hE4, \h44, \h44>>),
     ST7701_DSI(335, <<\hE5, \h0C, \h30, \hA0, \hA0, \h0E, \h32, \hA0, \hA0, \h08, \h2C, \hA0, \hA0, \h0A, \h2E, \hA0, \hA0>>),
     ST7701_DSI(336, <<\hE6, \h00, \h00, \h33, \h33>>),
     ST7701_DSI(337, <<\hE7, \h44, \h44>>),
     ST7701_DSI(338, <<\hE8, \h0D, \h31, \hA0, \hA0, \h0F, \h33, \hA0, \hA0, \h09, \h2D, \hA0, \hA0, \h0B, \h2F, \hA0, \hA0>>),
     ST7701_DSI(339, <<\hEB, \h00, \h01, \hE4, \hE4, \h44, \h88, \h00>>),
     ST7701_DSI(340, <<\hED, \hFF, \hF5, \h47, \h6F, \h0B, \hA1, \hA2, \hBF, \hFB, \h2A, \h1A, \hB0, \hF6, \h74, \h5F, \hFF>>),
     ST7701_DSI(341, <<\hEF, \h08, \h08, \h08, \h40, \h3F, \h64>>),
     ST7701_DSI(342, <<\hFF, \h77, \h01, \h00, \h00, \h13>>),
     ST7701_DSI(343, <<\hE8, \h00, \h0E>>),
     ST7701_DSI(344, <<\hFF, \h77, \h01, \h00, \h00, \h00>>),
     ST7701_DSI(345, <<\h11>>),
     ST7701_DSI(348, <<\hFF, \h77, \h01, \h00, \h00, \h13>>),
     ST7701_DSI(349, <<\hE8, \h00, \h0C>>),
     ST7701_DSI(352, <<\hE8, \h00, \h00>>),
     ST7701_DSI(353, <<\hFF, \h77, \h01, \h00, \h00, \h00>>),
     ST7701_DSI(354, <<\h3A, \h50>>),
     ST7701_DSI(355, <<\h29>>),
     ST7701_DSI(359, <<\h29>>),
     mipi_dsi_dcs_read(367, \h04, 3),
     mipi_dsi_dcs_read(371, \h0A, 1),
     mipi_dsi_dcs_read(375, \h0C, 1),
     mipi_dsi_dcs_read(379, \h0D, 1),
     mipi_dsi_dcs_read(383, \h0E, 1) >>

\* Variants of the body of st7701_prepare with the reset pulse misplaced:
\* after the init sequence, and driven high then low.
PrepareBody_ResetAfterInit ==
  st7701_init_sequence \o << gpiod_set_value(407, 0), gpiod_set_value(409, 1) >>

PrepareBody_ResetReversed ==
  << gpiod_set_value(407, 1), gpiod_set_value(409, 0) >> \o st7701_init_sequence

\* Variant whose init sequence lacks the last Command2 disable (line 353).
PrepareBody_Cmd2LeftOn ==
  << gpiod_set_value(407, 0), gpiod_set_value(409, 1) >>
    \o SelectSeq(st7701_init_sequence, LAMBDA e : e.line # 353)

\* st7701_prepare after the supplies are enabled: reset low, reset high,
\* then the init sequence.
PrepareBody ==
  << gpiod_set_value(407, 0), gpiod_set_value(409, 1) >> \o st7701_init_sequence

\* Variants of the body of st7701_unprepare: supplies off before the reset
\* goes low, and the reset line left high.
UnprepareBody_DisableFirst ==
  << regulator_bulk_disable(492, num_supplies), gpiod_set_value(479, 0) >>

UnprepareBody_ResetHigh ==
  << gpiod_set_value(479, 1), regulator_bulk_disable(492, num_supplies) >>

\* st7701_unprepare: reset low, then supplies off.
UnprepareBody ==
  << gpiod_set_value(479, 0), regulator_bulk_disable(492, num_supplies) >>

\* Variant of the test in st7701_prepare that ignores the enable result.
PrepareEnableFailed_Never(r) == FALSE

\* st7701_prepare: if (ret < 0) return ret;
PrepareEnableFailed(r) == r < 0

\* Return statements of the handlers: each is a literal return 0.
PrepareRet == 0

EnableRet == 0

DisableRet(r) == 0

\* Variant of st7701_unprepare that returns regulator_bulk_disable's result.
UnprepareRet_Propagate(r) == r

UnprepareRet(r) == 0

VARIABLES
  supplies,     \* enable count of the regulators (0 = supplies off)
  reset,        \* level last driven on the reset GPIO
  pc,           \* "idle", or the handler that is running
  idx,          \* next statement of the running handler's body
  ret,          \* st7701_prepare's local ret
  phase,        \* the host's view of the panel
  cycles,       \* Prepare calls made so far
  log,          \* collaborator calls since the last Prepare call began
  calls,        \* lifecycle calls returned since then, with return values
  firstWFail,   \* log index of the first failed write of this Prepare, or 0
  firstRFail,   \* log index of the first failed read of this Prepare, or 0
  anyFail,      \* some collaborator call failed since the last Prepare call
  rstSeq,       \* reset sequence since the supplies were last enabled
  enableOk,     \* regulator_bulk_enable calls that succeeded
  disableCalls, \* regulator_bulk_disable calls made
  disableFailed, \* some regulator_bulk_disable call failed
  dispOffRes,   \* result of the display-off write of this cycle's Disable
  modes,        \* connector: the probed mode list
  display_info, \* connector->display_info: width_mm, height_mm
  gmRet,        \* return value of the last st7701_get_modes, 0 before
  gmAlloc,      \* its drm_mode_duplicate: "none", "ok" or "nomem"
  compatible,   \* the compatible string the device was matched by
  ppc,          \* position of st7701_dsi_probe / st7701_dsi_remove
  probeRet,     \* return value of st7701_dsi_probe
  registered,   \* the panel is in the host's panel list (drm_panel_add)
  attached,     \* the DSI device is attached to its host
  st_dsi,       \* st7701->dsi is set
  st_desc,      \* st7701->desc: "NULL" or the matched compatible
  dsi_cfg,      \* dsi->lanes, dsi->mode_flags, dsi->format
  oops          \* "none", or what a callback dereferenced: an "unset"
                \* field of the instance, or the "freed" instance

\* The connector the host passes to st7701_get_modes.
connVars == << modes, display_info, gmRet, gmAlloc >>

\* The binding of the driver to the DSI device.
bindVars == << compatible, ppc, probeRet, registered, attached, st_dsi, st_desc, dsi_cfg,
               oops >>

vars == << supplies, reset, pc, idx, ret, phase, cycles, log, calls,
           firstWFail, firstRFail, anyFail, rstSeq, enableOk, disableCalls,
           disableFailed, dispOffRes, connVars, bindVars >>

\* dsi->mode_flags, dsi->format, dsi->lanes as st7701_dsi_probe leaves them.
ProbeDsiCfg ==
  [ lanes |-> 2,
    flags |-> {"MIPI_DSI_MODE_VIDEO", "MIPI_DSI_MODE_VIDEO_SYNC_PULSE",
               "MIPI_DSI_CLOCK_NON_CONTINUOUS", "MIPI_DSI_MSG_USE_LPM"},
    format |-> "MIPI_DSI_FMT_RGB888" ]

\* The lifecycle records before any lifecycle call, and an untouched
\* connector.
InitLifecycle ==
  /\ supplies = 0
  /\ pc = "idle"
  /\ idx = 1
  /\ ret = 0
  /\ phase = "unpowered"
  /\ cycles = 0
  /\ log = << >>
  /\ calls = << >>
  /\ firstWFail = 0
  /\ firstRFail = 0
  /\ anyFail = FALSE
  /\ enableOk = 0
  /\ disableCalls = 0
  /\ disableFailed = FALSE
  /\ dispOffRes = 0
  /\ modes = << >>
  /\ display_info = [width_mm |-> 0, height_mm |-> 0]
  /\ gmRet = 0
  /\ gmAlloc = "none"

\* The binding after st7701_dsi_probe returned 0 for compatible c.
Bound(c) ==
  /\ compatible = c
  /\ ppc = "done"
  /\ probeRet = 0
  /\ registered = TRUE
  /\ attached = TRUE
  /\ st_dsi = TRUE
  /\ st_desc = c
  /\ dsi_cfg = ProbeDsiCfg
  /\ oops = "none"

\* State after a successful st7701_dsi_probe: the reset GPIO is requested
\* GPIOD_OUT_LOW, the regulators are acquired but not enabled.
Init ==
  /\ InitLifecycle
  /\ reset = 0
  /\ rstSeq = "low"
  /\ \E c \in DOMAIN st7701_of_match : Bound(c)

\* Variant that repeats a failed statement once before running on.
NextStmt_RetryOnce(i, r) ==
  LET body == IF pc = "prepare" THEN PrepareBody ELSE UnprepareBody
  IN  IF r < 0 /\ (log = << >> \/ log[Len(log)].line # body[i].line)
        THEN i ELSE i + 1

\* The statement executed after statement i of a body returned r: the
\* driver tests no result of a reset, write or read, and always runs on.
NextStmt(i, r) == i + 1

\* Results a call can report.  gpiod_set_value returns nothing; disabling
\* regulators whose enable count is 0 is unbalanced and fails.
Results(e) ==
  CASE e.call = "gpio" -> {0}
    [] e.call = "disable" /\ supplies = 0 -> ErrCodes
    [] OTHER -> {0} \cup ErrCodes

\* One collaborator call e made by handler fn, reporting r.  fresh: the call
\* opens a new Prepare, so the records kept per cycle start over.
Call(fresh, fn, e, r) ==
  LET base == IF fresh THEN << >> ELSE log
      entry == [fn |-> fn, call |-> e.call, line |-> e.line, arg |-> e.arg]
      n == Len(base) + 1
      fw == IF fresh THEN 0 ELSE firstWFail
      fr == IF fresh THEN 0 ELSE firstRFail
      af == IF fresh THEN FALSE ELSE anyFail
  IN  /\ log' = Append(base, entry)
      /\ reset' = IF e.call = "gpio" THEN e.arg[1] ELSE reset
      /\ supplies' = CASE e.call = "enable" /\ r = 0 -> supplies + 1
                       [] e.call = "disable" /\ r = 0 -> supplies - 1
                       [] OTHER -> supplies
      /\ rstSeq' = CASE e.call = "enable" /\ r = 0 -> "none"
                     [] e.call = "gpio" /\ e.arg[1] = 0 -> "low"
                     [] e.call = "gpio" /\ e.arg[1] = 1 /\ rstSeq = "low"
                          -> "released"
                     [] OTHER -> rstSeq
      /\ firstWFail' = IF fn = "prepare" /\ e.call = "write" /\ r < 0 /\ fw = 0
                         THEN n ELSE fw
      /\ firstRFail' = IF fn = "prepare" /\ e.call = "read" /\ r < 0 /\ fr = 0
                         THEN n ELSE fr
      /\ anyFail' = (af \/ r < 0)
      /\ enableOk' = IF e.call = "enable" /\ r = 0
                       THEN enableOk + 1 ELSE enableOk
      /\ disableCalls' = IF e.call = "disable"
                           THEN disableCalls + 1 ELSE disableCalls
      /\ disableFailed' = (disableFailed \/ (e.call = "disable" /\ r < 0))
      /\ dispOffRes' = CASE fn = "disable" /\ e.call = "write" -> r
                         [] fresh -> 0
                         [] OTHER -> dispOffRes
      /\ UNCHANGED << connVars, bindVars >>

\* No collaborator of the lifecycle is called: supplies, reset line and
\* command channel stay as they are.
NoHw ==
  UNCHANGED << log, reset, supplies, rstSeq, firstWFail, firstRFail, anyFail,
               enableOk, disableCalls, disableFailed, dispOffRes >>

NoCall == NoHw /\ UNCHANGED << connVars, bindVars >>

\* The instance a callback reaches through the registered panel is fully
\* set up: st7701->desc and st7701->dsi are set and the instance is live.
PanelUsable == registered /\ st_dsi /\ st_desc # "NULL" /\ ppc # "failed"

\* The host's view after handler op returned r.
HostPhase(op, r) ==
  CASE op = "prepare" -> IF r < 0 THEN "failed" ELSE "prepared"
    [] op = "enable" -> "enabled"
    [] op = "disable" -> "disabled"
    [] op = "unprepare" -> "unpowered"

\* Handler op returns r to the host.
Return(base, op, r) ==
  /\ calls' = Append(base, [op |-> op, ret |-> r])
  /\ phase' = HostPhase(op, r)
  /\ pc' = "idle"
  /\ idx' = 1

(***************************************************************************)
(* The lifecycle callbacks (st7701_funcs).                                 *)
(***************************************************************************)
\* st7701_prepare, up to the test of regulator_bulk_enable's result.  The
\* host prepares an unpowered panel, or retries after a failed Prepare.
st7701_prepare ==
  /\ pc = "idle"
  /\ PanelUsable
  /\ phase \in {"unpowered", "failed"}
  /\ cycles < MaxCycles
  /\ cycles' = cycles + 1
  /\ \E r \in Results(regulator_bulk_enable(400, num_supplies)) :
       /\ Call(TRUE, "prepare", regulator_bulk_enable(400, num_supplies), r)
       /\ ret' = r
       /\ IF PrepareEnableFailed(r)
            THEN Return(<< >>, "prepare", r)
            ELSE /\ pc' = "prepare"
                 /\ idx' = 1
                 /\ calls' = << >>
                 /\ UNCHANGED phase

\* st7701_prepare, one statement after the enable: a reset transition or one
\* statement of st7701_init_sequence.
st7701_prepare_step ==
  /\ pc = "prepare"
  /\ idx <= Len(PrepareBody)
  /\ \E r \in Results(PrepareBody[idx]) :
       /\ Call(FALSE, "prepare", PrepareBody[idx], r)
       /\ idx' = NextStmt(idx, r)
  /\ UNCHANGED << pc, ret, phase, cycles, calls >>

\* st7701_prepare: return 0;
st7701_prepare_return ==
  /\ pc = "prepare"
  /\ idx > Len(PrepareBody)
  /\ Return(calls, "prepare", PrepareRet)
  /\ NoCall
  /\ UNCHANGED << ret, cycles >>

\* Variant of st7701_enable that sends the display-on of lines 437-438.
st7701_enable_DisplayOn ==
  /\ pc = "idle"
  /\ PanelUsable
  /\ phase = "prepared"
  /\ \E r \in Results(ST7701_DSI(438, << \h29, \h00 >>)) :
       Call(FALSE, "enable", ST7701_DSI(438, << \h29, \h00 >>), r)
  /\ Return(calls, "enable", EnableRet)
  /\ UNCHANGED << ret, cycles >>

\* st7701_enable: logs and returns 0.
st7701_enable ==
  /\ pc = "idle"
  /\ PanelUsable
  /\ phase = "prepared"
  /\ Return(calls, "enable", EnableRet)
  /\ NoCall
  /\ UNCHANGED << ret, cycles >>

\* Variant of st7701_disable that pulls the reset line low instead.
st7701_disable_ResetLow ==
  /\ pc = "idle"
  /\ PanelUsable
  /\ phase = "enabled"
  /\ Call(FALSE, "disable", gpiod_set_value(462, 0), 0)
  /\ Return(calls, "disable", DisableRet(0))
  /\ UNCHANGED << ret, cycles >>

\* st7701_disable: display off, result dropped, return 0.
st7701_disable ==
  /\ pc = "idle"
  /\ PanelUsable
  /\ phase = "enabled"
  /\ \E r \in Results(mipi_dsi_dcs_set_display_off(462)) :
       /\ Call(FALSE, "disable", mipi_dsi_dcs_set_display_off(462), r)
       /\ Return(calls, "disable", DisableRet(r))
  /\ UNCHANGED << ret, cycles >>

\* st7701_unprepare, first statement.  The host unprepares a prepared or
\* disabled panel, and tears down after a failed Prepare.
st7701_unprepare ==
  /\ pc = "idle"
  /\ PanelUsable
  /\ phase \in {"prepared", "disabled", "failed"}
  /\ \E r \in Results(UnprepareBody[1]) :
       /\ Call(FALSE, "unprepare", UnprepareBody[1], r)
       /\ idx' = NextStmt(1, r)
  /\ pc' = "unprepare"
  /\ UNCHANGED << ret, phase, cycles, calls >>

\* st7701_unprepare, last statement and return 0.
st7701_unprepare_step ==
  /\ pc = "unprepare"
  /\ idx <= Len(UnprepareBody)
  /\ \E r \in Results(UnprepareBody[idx]) :
       /\ Call(FALSE, "unprepare", UnprepareBody[idx], r)
       /\ IF NextStmt(idx, r) > Len(UnprepareBody)
            THEN Return(calls, "unprepare", UnprepareRet(r))
            ELSE /\ idx' = NextStmt(idx, r)
                 /\ UNCHANGED << pc, phase, calls >>
  /\ UNCHANGED << ret, cycles >>

\* drm_mode_duplicate: a copy of the mode, or NULL (no memory).
drm_mode_duplicate(m, ok) == IF ok THEN << m >> ELSE << >>

\* drm_mode_set_name: "<hdisplay>x<vdisplay>".
drm_mode_set_name(m) ==
  [f \in DOMAIN m \cup {"name"} |->
     IF f = "name" THEN << m.hdisplay, m.vdisplay >> ELSE m[f]]

\* Variants of st7701_get_modes: display_info is not filled in, and
\* display_info is filled in before the allocation is tested.
GetModesResult_NoSize(mode, desc_mode) ==
  IF mode = << >>
    THEN [ret |-> -12, modes |-> modes, display_info |-> display_info]
    ELSE [ret |-> 1,
          modes |-> Append(modes, drm_mode_set_name(mode[1])),
          display_info |-> display_info]

GetModesResult_SizeFirst(mode, desc_mode) ==
  LET info == [display_info EXCEPT !.width_mm = desc_mode.width_mm,
                                   !.height_mm = desc_mode.height_mm]
  IN  IF mode = << >>
        THEN [ret |-> -12, modes |-> modes, display_info |-> info]
        ELSE [ret |-> 1,
              modes |-> Append(modes, drm_mode_set_name(mode[1])),
              display_info |-> info]

\* st7701_get_modes after drm_mode_duplicate: -ENOMEM if it returned NULL;
\* else name the mode, add it to the connector, set the physical size from
\* the descriptor's mode and return 1.
GetModesResult(mode, desc_mode) ==
  IF mode = << >>
    THEN [ret |-> -12, modes |-> modes, display_info |-> display_info]
    ELSE [ret |-> 1,
          modes |-> Append(modes, drm_mode_set_name(mode[1])),
          display_info |-> [display_info EXCEPT
                              !.width_mm = desc_mode.width_mm,
                              !.height_mm = desc_mode.height_mm]]

\* st7701_get_modes.  The host may ask for the modes between any two
\* lifecycle calls.
st7701_get_modes ==
  /\ pc = "idle"
  /\ PanelUsable
  /\ Len(modes) < MaxModes
  /\ \E ok \in BOOLEAN :
       LET desc_mode == st7701_of_match[st_desc].mode
           res == GetModesResult(drm_mode_duplicate(desc_mode, ok), desc_mode)
       IN  /\ gmAlloc' = IF ok THEN "ok" ELSE "nomem"
           /\ gmRet' = res.ret
           /\ modes' = res.modes
           /\ display_info' = res.display_info
  /\ NoHw
  /\ UNCHANGED << pc, idx, ret, phase, cycles, calls, bindVars >>

Next ==
  \/ st7701_prepare
  \/ st7701_prepare_step
  \/ st7701_prepare_return
  \/ st7701_enable
  \/ st7701_disable
  \/ st7701_unprepare
  \/ st7701_unprepare_step

Spec == Init /\ [][Next]_vars

(***************************************************************************)
(* Binding: st7701_dsi_probe and st7701_dsi_remove, one step per call that *)
(* can fail or that makes the instance visible.  The host's lifecycle and  *)
(* mode-query calls run in another thread: the panel list hands out the    *)
(* panel from drm_panel_add on.                                            *)
(***************************************************************************)
\* Before the bind: nothing is allocated or acquired; the level of the reset
\* line is whatever the board left.
InitBind ==
  /\ InitLifecycle
  /\ reset \in {0, 1}
  /\ rstSeq = "none"
  /\ compatible \in DOMAIN st7701_of_match
  /\ ppc = "unbound"
  /\ probeRet = 0
  /\ registered = FALSE
  /\ attached = FALSE
  /\ st_dsi = FALSE
  /\ st_desc = "NULL"
  /\ dsi_cfg = [lanes |-> 0, flags |-> {}, format |-> "none"]
  /\ oops = "none"

\* The lifecycle thread and the connector are not involved.
ProbeFrame ==
  UNCHANGED << pc, idx, ret, phase, cycles, calls, connVars, compatible, oops >>

\* st7701_dsi_probe returns r < 0; devm releases what was acquired.
ProbeFail(r) ==
  /\ ppc' = "failed"
  /\ probeRet' = r

\* devm_kzalloc of the instance; desc = of_device_get_match_data; the first
\* setting of dsi->mode_flags, format and lanes, from desc.
st7701_dsi_probe ==
  /\ ppc = "unbound"
  /\ \E ok \in BOOLEAN :
       IF ok
         THEN LET desc == st7701_of_match[compatible]
              IN  /\ dsi_cfg' = [lanes |-> desc.lanes, flags |-> desc.flags,
                                 format |-> desc.format]
                  /\ ppc' = "supplies"
                  /\ UNCHANGED probeRet
         ELSE ProbeFail(-12) /\ UNCHANGED dsi_cfg
  /\ NoHw
  /\ ProbeFrame
  /\ UNCHANGED << registered, attached, st_dsi, st_desc >>

\* devm_kcalloc of the supplies array (-ENOMEM) and devm_regulator_bulk_get.
st7701_dsi_probe_supplies ==
  /\ ppc = "supplies"
  /\ \E r \in {0, -12} \cup ErrCodes :
       IF r < 0 THEN ProbeFail(r)
                ELSE ppc' = "reset" /\ UNCHANGED probeRet
  /\ NoHw
  /\ ProbeFrame
  /\ UNCHANGED << registered, attached, st_dsi, st_desc, dsi_cfg >>

\* devm_gpiod_get(dev, "reset", GPIOD_OUT_LOW): the line is driven low.
st7701_dsi_probe_reset ==
  /\ ppc = "reset"
  /\ \E r \in {0} \cup ErrCodes :
       IF r < 0
         THEN ProbeFail(r) /\ UNCHANGED << reset, rstSeq >>
         ELSE /\ reset' = 0
              /\ rstSeq' = "low"
              /\ ppc' = "backlight"
              /\ UNCHANGED probeRet
  /\ UNCHANGED << log, supplies, firstWFail, firstRFail, anyFail, enableOk,
                  disableCalls, disableFailed, dispOffRes >>
  /\ ProbeFrame
  /\ UNCHANGED << registered, attached, st_dsi, st_desc, dsi_cfg >>

\* drm_panel_init, sleep_delay, drm_panel_of_backlight.
st7701_dsi_probe_backlight ==
  /\ ppc = "backlight"
  /\ \E r \in {0} \cup ErrCodes :
       IF r # 0 THEN ProbeFail(r)
                ELSE ppc' = "add" /\ UNCHANGED probeRet
  /\ NoHw
  /\ ProbeFrame
  /\ UNCHANGED << registered, attached, st_dsi, st_desc, dsi_cfg >>

\* drm_panel_add: the panel enters the host's panel list.
st7701_dsi_probe_add ==
  /\ ppc = "add"
  /\ registered' = TRUE
  /\ ppc' = "fields"
  /\ NoHw
  /\ ProbeFrame
  /\ UNCHANGED << probeRet, attached, st_dsi, st_desc, dsi_cfg >>

\* mipi_dsi_set_drvdata; st7701->dsi = dsi; st7701->desc = desc; the second,
\* literal setting of dsi->mode_flags, format and lanes.
st7701_dsi_probe_fields ==
  /\ ppc = "fields"
  /\ st_dsi' = TRUE
  /\ st_desc' = compatible
  /\ dsi_cfg' = ProbeDsiCfg
  /\ ppc' = "attach"
  /\ NoHw
  /\ ProbeFrame
  /\ UNCHANGED << probeRet, registered, attached >>

\* return mipi_dsi_attach(dsi);
st7701_dsi_probe_attach ==
  /\ ppc = "attach"
  /\ \E r \in {0} \cup ErrCodes :
       /\ probeRet' = r
       /\ attached' = (r = 0)
       /\ ppc' = IF r = 0 THEN "done" ELSE "failed"
  /\ NoHw
  /\ ProbeFrame
  /\ UNCHANGED << registered, st_dsi, st_desc, dsi_cfg >>

\* st7701_dsi_remove: detach, then take the panel off the list.  The host
\* unbinds between lifecycle calls.
st7701_dsi_remove ==
  /\ ppc = "done"
  /\ pc = "idle"
  /\ attached' = FALSE
  /\ registered' = FALSE
  /\ ppc' = "removed"
  /\ NoHw
  /\ ProbeFrame
  /\ UNCHANGED << probeRet, st_dsi, st_desc, dsi_cfg >>

\* A callback entered through a registered panel whose instance is not
\* usable: st7701->desc is still NULL (kzalloc) when st7701_prepare reads
\* desc->num_supplies or st7701_get_modes reads desc->mode, or the instance
\* was released by devm after the probe failed.
Oops ==
  /\ pc = "idle"
  /\ registered
  /\ ~PanelUsable
  /\ oops' = IF ppc = "failed" THEN "freed" ELSE "unset"
  /\ pc' = "oops"
  /\ NoHw
  /\ UNCHANGED << idx, ret, phase, cycles, calls, connVars, compatible, ppc,
                  probeRet, registered, attached, st_dsi, st_desc, dsi_cfg >>

\* st7701_prepare on such a panel.
st7701_prepare_oops == phase \in {"unpowered", "failed"} /\ Oops

\* st7701_get_modes on such a panel.
st7701_get_modes_oops == Len(modes) < MaxModes /\ Oops

NextBind ==
  \/ st7701_dsi_probe
  \/ st7701_dsi_probe_supplies
  \/ st7701_dsi_probe_reset
  \/ st7701_dsi_probe_backlight
  \/ st7701_dsi_probe_add
  \/ st7701_dsi_probe_fields
  \/ st7701_dsi_probe_attach
  \/ st7701_dsi_remove
  \/ st7701_prepare_oops
  \/ st7701_get_modes_oops
  \/ st7701_get_modes
  \/ Next

SpecBind == InitBind /\ [][NextBind]_vars

\* The lifecycle with mode queries in between.
NextModes ==
  \/ Next
  \/ st7701_get_modes

SpecModes == Init /\ [][NextModes]_vars

(***************************************************************************)
(* Properties.                                                             *)
(***************************************************************************)
Last(s) == s[Len(s)]

IsCmd(e) == e.call \in {"write", "read"}

IsWrite(e) == e.call = "write"

IsGpio(e, level) == e.call = "gpio" /\ e.arg = << level >>

Args(s) == [i \in 1..Len(s) |-> s[i].arg]

\* The writes st7701_prepare has issued, in the order issued.
PrepareWrites ==
  SelectSeq(log, LAMBDA e : e.fn = "prepare" /\ e.call = "write")

\* The last Prepare has returned r.
PrepareReturned(r) ==
  /\ calls # << >>
  /\ calls[1] = [op |-> "prepare", ret |-> r]

\* C1: in every Prepare the supply-enable call precedes every reset-line
\* transition, and the two reset transitions, low then high, precede every
\* write or read on the command channel.
C1_SupplyResetCommandOrder ==
  \A k \in 1..Len(log) :
    log[k].fn = "prepare" =>
      /\ log[k].call = "gpio" =>
           \E i \in 1..(k - 1) : log[i].fn = "prepare" /\ log[i].call = "enable"
      /\ IsCmd(log[k]) =>
           /\ \E j \in 1..(k - 1) :
                /\ log[j].fn = "prepare" /\ IsGpio(log[j], 1)
                /\ \E i \in 1..(j - 1) :
                     log[i].fn = "prepare" /\ IsGpio(log[i], 0)
           /\ \A g \in (k + 1)..Len(log) :
                ~(log[g].fn = "prepare" /\ log[g].call = "gpio")

\* A first Prepare on the freshly bound instance has run to its end.
C1_Witness ==
  /\ cycles = 1
  /\ pc = "idle"
  /\ PrepareReturned(0)
  /\ Len(log) = 1 + Len(PrepareBody)

\* C2: when regulator_bulk_enable fails in Prepare, Prepare returns that
\* error and makes no reset-line call and no command-channel write or read.
C2_PowerErrorStopsPrepare ==
  ret < 0 =>
    /\ pc # "prepare"
    /\ PrepareReturned(ret)
    /\ \A k \in 1..Len(log) : log[k].fn = "prepare" => log[k].call = "enable"

\* Prepare has failed with a power error.
C2_Witness ==
  /\ ret < 0
  /\ phase = "failed"
  /\ log = << [fn |-> "prepare", call |-> "enable", line |-> 400,
               arg |-> << num_supplies >>] >>

\* C3: after the first failing write of the init sequence Prepare issues no
\* further write, and it returns an error.
C3_WriteErrorStopsPrepare ==
  firstWFail # 0 =>
    /\ \A k \in (firstWFail + 1)..Len(log) :
         ~(log[k].fn = "prepare" /\ IsWrite(log[k]))
    /\ (calls # << >> /\ calls[1].op = "prepare") => calls[1].ret < 0

\* C4: when the display-id read after sleep-out fails, Prepare issues no
\* init-sequence write after it and returns an error.
C4_ReadErrorStopsPrepare ==
  (firstRFail # 0 /\ log[firstRFail].line = 263) =>
    /\ \A k \in (firstRFail + 1)..Len(log) :
         ~(log[k].fn = "prepare" /\ IsWrite(log[k]))
    /\ (calls # << >> /\ calls[1].op = "prepare") => calls[1].ret < 0

\* The collaborator call order of one full cycle: enable-supplies, reset
\* low, reset high, the command-channel traffic of the init sequence with
\* its writes in table order, display off, reset low, disable-supplies.
FullCycleOrder(l) ==
  LET n == Len(l)
  IN  /\ n >= 6
      /\ l[1].fn = "prepare" /\ l[1].call = "enable"
      /\ l[2].fn = "prepare" /\ IsGpio(l[2], 0)
      /\ l[3].fn = "prepare" /\ IsGpio(l[3], 1)
      /\ \A k \in 4..(n - 3) : l[k].fn = "prepare" /\ IsCmd(l[k])
      /\ Args(SelectSeq(SubSeq(l, 4, n - 3), IsWrite))
           = Args(SelectSeq(st7701_init_sequence, IsWrite))
      /\ l[n - 2].fn = "disable" /\ IsWrite(l[n - 2]) /\ l[n - 2].arg = << \h28 >>
      /\ l[n - 1].fn = "unprepare" /\ IsGpio(l[n - 1], 0)
      /\ l[n].fn = "unprepare" /\ l[n].call = "disable"

\* C5: Prepare, Enable, Disable, Unprepare on collaborators that always
\* succeed make their calls in the order of FullCycleOrder (Enable and the
\* sleep-in of Unprepare contribute nothing), and all four return success.
C5_FullCycleCallOrder ==
  ( /\ pc = "idle"
    /\ ~anyFail
    /\ [i \in 1..Len(calls) |-> calls[i].op]
         = << "prepare", "enable", "disable", "unprepare" >> )
  => /\ FullCycleOrder(log)
     /\ \A i \in 1..Len(calls) : calls[i].ret = 0

\* A full cycle without any collaborator failure has completed.
C5_Witness ==
  /\ pc = "idle"
  /\ ~anyFail
  /\ Len(calls) = 4
  /\ calls[4].op = "unprepare"
  /\ Len(log) = 1 + Len(PrepareBody) + 3

C7_UnprepareAlwaysPowersDown ==
  (calls # << >> /\ Last(calls).op = "unprepare") =>
    /\ Last(calls).ret = 0
    /\ Len(log) >= 2
    /\ log[Len(log) - 1].fn = "unprepare" /\ IsGpio(log[Len(log) - 1], 0)
    /\ Last(log).fn = "unprepare" /\ Last(log).call = "disable"

\* Unprepare has returned after a write of the init sequence failed and its
\* own regulator_bulk_disable failed with the supplies enabled.
C7_Witness ==
  /\ calls # << >>
  /\ Last(calls).op = "unprepare"
  /\ firstWFail # 0
  /\ cycles = 1
  /\ supplies = 1
  /\ disableFailed

\* C8: the driver never calls disable-supplies more often than
\* supply-enable has succeeded.
C8_DisableBalanced == disableCalls <= enableOk

\* C9: every command-channel write or read is issued while the supplies are
\* enabled and the reset line has been driven low then high since they were
\* last enabled.
C9_CommandsOnlyWhenReleased ==
  [][ (log' # log /\ IsCmd(Last(log')))
        => (supplies > 0 /\ rstSeq = "released" /\ reset = 1) ]_vars

\* Display off has been written in the second cycle.
C9_Witness ==
  /\ cycles = 2
  /\ log # << >>
  /\ Last(log).fn = "disable"
  /\ IsWrite(Last(log))

\* C10: Prepare writes the init sequence in the order listed, software
\* reset first, then sleep-out, ending with display-on, each entry as one
\* buffer of address byte and payload; whatever fails, no entry is written
\* twice in one Prepare.
C10_InitOrderNoRetry ==
  LET w == PrepareWrites
  IN  /\ \A i \in 1..(Len(w) - 1) : w[i].line < w[i + 1].line
      /\ (PrepareReturned(0) /\ firstWFail = 0 /\ firstRFail = 0) =>
           /\ Args(w) = Args(SelectSeq(st7701_init_sequence, IsWrite))
           /\ w[1].arg = << \h01 >>
           /\ w[2].arg = << \h11 >>
           /\ w[Len(w)].arg = << \h29 >>
           /\ \A i \in 1..Len(w) : Len(w[i].arg) >= 1

\* Prepare has returned on a command channel that never failed.
C10_Witness ==
  /\ PrepareReturned(0)
  /\ Len(calls) = 1
  /\ firstWFail = 0
  /\ firstRFail = 0
  /\ Len(PrepareWrites) = 47

\* C11: a GetModes call whose mode allocation succeeds adds exactly one mode
\* to the connector and returns 1; the mode has the descriptor mode's
\* hdisplay and vdisplay, and the connector's width_mm and height_mm become
\* the descriptor mode's.
C11_GetModesAddsDescriptorMode ==
  [][ (connVars' # connVars /\ gmAlloc' = "ok") =>
        LET dm == st7701_of_match[st_desc].mode
        IN  /\ gmRet' = 1
            /\ Len(modes') = Len(modes) + 1
            /\ SubSeq(modes', 1, Len(modes)) = modes
            /\ modes'[Len(modes')].hdisplay = dm.hdisplay
            /\ modes'[Len(modes')].vdisplay = dm.vdisplay
            /\ display_info'.width_mm = dm.width_mm
            /\ display_info'.height_mm = dm.height_mm ]_vars

\* GetModes has succeeded twice.
C11_Witness ==
  /\ gmAlloc = "ok"
  /\ gmRet = 1
  /\ Len(modes) = 2
  /\ display_info = [width_mm |-> 45, height_mm |-> 76]

\* C12: GetModes leaves the supplies, the reset line and the command
\* channel as they are in every lifecycle state; it fails exactly when the
\* mode allocation fails, and then returns -ENOMEM, adds no mode and leaves
\* the connector's physical size unchanged.
C12_GetModesTouchesNoHardware ==
  [][ connVars' # connVars =>
        /\ supplies' = supplies /\ reset' = reset /\ log' = log
        /\ (gmRet' < 0) <=> (gmAlloc' = "nomem")
        /\ gmAlloc' = "nomem" =>
             /\ gmRet' = -12
             /\ modes' = modes
             /\ display_info' = display_info ]_vars

\* A GetModes call has failed for lack of memory while the panel was
\* displaying, before any mode was added.
C12_Witness ==
  /\ gmAlloc = "nomem"
  /\ gmRet = -12
  /\ modes = << >>
  /\ display_info = [width_mm |-> 0, height_mm |-> 0]
  /\ phase = "enabled"
  /\ supplies = 1
  /\ reset = 1

\* Handler op has just returned.
Returns(op) ==
  /\ calls' # calls
  /\ calls' # << >>
  /\ calls'[Len(calls')].op = op

\* C13: Disable returns non-success exactly when its display-off write
\* fails.
C13_DisablePropagatesWriteError ==
  (calls # << >> /\ Last(calls).op = "disable") =>
    ((Last(calls).ret < 0) <=> (dispOffRes < 0))

\* C14: Disable issues exactly one display-off command and leaves the
\* supplies and the reset line as they are, whether or not the write
\* succeeds.
C14_DisableOnlyDisplayOff ==
  [][ Returns("disable") =>
        /\ Len(log') = Len(log) + 1
        /\ SubSeq(log', 1, Len(log)) = log
        /\ log'[Len(log')].fn = "disable"
        /\ IsWrite(log'[Len(log')])
        /\ log'[Len(log')].arg = << \h28 >>
        /\ supplies' = supplies
        /\ reset' = reset ]_vars

\* Disable has returned after its display-off write failed.
C14_Witness ==
  /\ calls # << >>
  /\ Last(calls).op = "disable"
  /\ dispOffRes < 0
  /\ supplies = 1
  /\ reset = 1

\* C16: Enable makes no command-channel, supply or reset-line call and
\* returns 0; by then Prepare has written display-on (0x29), and did so
\* after sleep-out (0x11).
C16_EnableIsNoOp ==
  [][ Returns("enable") =>
        /\ log' = log
        /\ supplies' = supplies
        /\ reset' = reset
        /\ calls'[Len(calls')].ret = 0
        /\ calls[1] = [op |-> "prepare", ret |-> 0]
        /\ \E j \in 1..Len(log) :
             /\ log[j].fn = "prepare" /\ IsWrite(log[j])
             /\ log[j].arg = << \h29 >>
             /\ \E i \in 1..(j - 1) :
                  /\ log[i].fn = "prepare" /\ IsWrite(log[i])
                  /\ log[i].arg = << \h11 >> ]_vars

\* Enable has returned.
C16_Witness ==
  /\ pc = "idle"
  /\ phase = "enabled"
  /\ Len(calls) = 2
  /\ calls[2] = [op |-> "enable", ret |-> 0]
  /\ Len(log) = 1 + Len(PrepareBody)

\* C17: once bound, the reset line is never high while the supplies are
\* disabled, in the states inside Prepare and Unprepare too.
C17_NoResetHighWithoutSupplies ==
  ppc = "done" => ~(reset = 1 /\ supplies = 0)

\* Inside the second Unprepare: the reset line is already low, the supplies
\* are still enabled.
C17_Witness ==
  /\ ppc = "done"
  /\ pc = "unprepare"
  /\ cycles = 2
  /\ reset = 0
  /\ supplies = 1

\* A Command2 bank-select write of the init sequence, and a standard DCS
\* command of it (sleep-out, pixel format, display-on).
IsBankSel(e) == e.fn = "prepare" /\ IsWrite(e) /\ e.arg[1] = \hFF

IsStdDcs(e) ==
  e.fn = "prepare" /\ IsWrite(e) /\ e.arg[1] \in {\h11, \h3A, \h29}

\* The bank selected before log entry k: the last byte of the most recent
\* bank-select, or -1 before the first one.
BankBefore(k) ==
  LET s == {i \in 1..(k - 1) : IsBankSel(log[i])}
  IN  IF s = {} THEN -1
      ELSE log[CHOOSE i \in s : \A j \in s : j <= i].arg[6]

\* C20: every standard DCS command the init sequence writes after its
\* first bank-select is written with Command2 disabled (bank 0x00), and
\* Command2 is disabled when the init sequence has finished.
C20_StdCommandsOutsideCommand2 ==
  /\ \A k \in 1..Len(log) :
       IsStdDcs(log[k]) =>
         LET bank == BankBefore(k) IN bank # -1 => bank = \h00
  /\ (calls # << >> /\ calls[1].op = "prepare" /\ calls[1].ret = 0) =>
       BankBefore(Len(log) + 1) = \h00

\* Prepare has returned: the init sequence has run to its end.
C20_Witness ==
  /\ pc = "idle"
  /\ phase = "prepared"
  /\ log[Len(log)].line = 383
  /\ Cardinality({k \in 1..Len(log) : IsStdDcs(log[k])}) = 5
  /\ Cardinality({k \in 1..Len(log) : IsBankSel(log[k])}) = 7

\* A bind that returned 0 leaves the state the lifecycle starts from.
BindEndsInInit ==
  (ppc = "done" /\ pc = "idle" /\ cycles = 0 /\ modes = << >> /\ gmRet = 0)
    => (Bound(compatible) /\ InitLifecycle /\ reset = 0 /\ rstSeq = "low")

\* C15: when a bind-time step fails, bind returns an error, the panel is
\* not left in the host's panel list and the DSI device is not left
\* attached.
C15_FailedBindLeavesNothing ==
  ppc = "failed" => (probeRet < 0 /\ ~registered /\ ~attached)

\* C18: st7701->dsi and st7701->desc are set before the panel is
\* registered, so no Prepare or GetModes entered through the registered
\* panel during the bind finds one of them unset.
C18_FieldsSetBeforeRegistered ==
  /\ (registered /\ ppc # "failed") => (st_dsi /\ st_desc # "NULL")
  /\ oops # "unset"

\* C19: after a successful bind the channel's lanes, mode flags and pixel
\* format are those of the matched descriptor.
C19_ChannelConfigFromDescriptor ==
  ppc = "done" =>
    LET desc == st7701_of_match[compatible]
    IN  dsi_cfg = [lanes |-> desc.lanes, flags |-> desc.flags,
                   format |-> desc.format]

====
